---- MODULE Spec2Model ----
(***************************************************************************)
(* A model of pypaperbak's framing protocol (src/pypaperbak/app.py): the   *)
(* v1 frame builder, unframe_data, the run_backup chunk loop and the       *)
(* run_restore write-back loop.                                            *)
(*                                                                         *)
(* Bytes are the integers 0..255 and byte strings are sequences of them.   *)
(* A CRC-32 value is a Word, a pair of 16-bit halves, because TLC's        *)
(* integers stop at 2^31 - 1.  File offsets are integers, so the model     *)
(* only draws offsets below 2^31.                                          *)
(***************************************************************************)
EXTENDS Integers, Sequences, FiniteSets, TLC

VARIABLES
    \* frame codec, driven on drawn inputs
    cpc,          \* "input" | "ready" | "done", and "idle" outside SpecCodec
    cin,          \* the drawn input: v1's arguments, or a raw byte string
    cbytes,       \* the byte string handed to unframe_data
    cflip,        \* the bit of the frame that was flipped, or -1
    cresult,      \* what unframe_data did with cbytes
    \* run_backup
    bpc,          \* "start" | "loop" | "finished", and "idle" in SpecCodec
    infile,       \* the input file's bytes
    chunksize,    \* args.chunksize
    filepos,      \* read position of infile
    sizesofar,
    qr_number,
    qr_count,
    exported,     \* the text of every QR code given to exporter.add_qr, in order
    \* run_restore
    rpc,          \* "idle" | "images" | "codes" | "finished" | "raised"
    outfile,      \* the output sink
    encdatalist,  \* the strings of the current image not yet processed
    applied,      \* history: the (payload, position) pairs written so far
    lastresult    \* what the latest processed string did

cvars == <<cpc, cin, cbytes, cflip, cresult>>
bvars == <<bpc, infile, chunksize, filepos, sizesofar, qr_number, qr_count, exported>>
rvars == <<rpc, outfile, encdatalist, applied, lastresult>>
vars == <<cvars, bvars, rvars>>

----------------------------------------------------------------------------
(* Bounds of the model *)

MaxPayloadLen == 2
MaxTailLen == 5
MaxFileLen == 5
MaxChunk == 3
MaxCodes == 2

----------------------------------------------------------------------------
(* Integers, bytes and Python slices *)

Min(a, b) == IF a < b THEN a ELSE b
Max(a, b) == IF a > b THEN a ELSE b

\* Python's a & b on non-negative integers
RECURSIVE BitAnd(_, _)
BitAnd(a, b) ==
    IF a = 0 \/ b = 0 THEN 0
    ELSE (a % 2) * (b % 2) + 2 * BitAnd(a \div 2, b \div 2)

\* a slice bound as Python normalises it for a sequence of length n
PyIndex(n, i) == IF i < 0 THEN Max(n + i, 0) ELSE Min(i, n)

\* Python's s[i:j] (0-based, j exclusive, negative bounds count from the end)
PySlice(s, i, j) ==
    LET lo == PyIndex(Len(s), i)
        hi == PyIndex(Len(s), j)
    IN  IF hi <= lo THEN <<>> ELSE SubSeq(s, lo + 1, hi)

\* Python's s[i:]
PySliceFrom(s, i) == PySlice(s, i, Len(s))

\* int.to_bytes(4, 'big') of an integer 0 <= n < 2^31
IntToBytes4(n) ==
    << (n \div 16777216) % 256, (n \div 65536) % 256, (n \div 256) % 256, n % 256 >>

\* int.from_bytes(bs, 'big') as an integer
RECURSIVE IntFromBytes(_)
IntFromBytes(bs) ==
    IF bs = <<>> THEN 0
    ELSE IntFromBytes(SubSeq(bs, 1, Len(bs) - 1)) * 256 + bs[Len(bs)]

----------------------------------------------------------------------------
(* 32-bit words and CRC-32 (binascii.crc32) *)

\* Python's a ^ b on non-negative integers
RECURSIVE BitXor(_, _)
BitXor(a, b) ==
    IF a = 0 THEN b
    ELSE IF b = 0 THEN a
    ELSE ((a + b) % 2) + 2 * BitXor(a \div 2, b \div 2)

\* A Word is the pair <<hi, lo>> of 16-bit halves of an unsigned 32-bit value
\* hi * 65536 + lo.
ZeroWord == <<0, 0>>
OnesWord == <<65535, 65535>>

WordXor(a, b) == << BitXor(a[1], b[1]), BitXor(a[2], b[2]) >>
WordShr1(a) == << a[1] \div 2, (a[1] % 2) * 32768 + a[2] \div 2 >>

\* int.from_bytes(bs, 'big') as a word, for Len(bs) <= 4
WordFromBytes(bs) == << IntFromBytes(PySlice(bs, -4, -2)), IntFromBytes(PySliceFrom(bs, -2)) >>

\* int.to_bytes(4, 'big') of a word
WordToBytes4(w) == << w[1] \div 256, w[1] % 256, w[2] \div 256, w[2] % 256 >>

\* the reflected CRC-32 polynomial 0xEDB88320
CrcPoly == << 60856, 33568 >>

\* one bit of the table entry under construction
CrcShift(c) == IF c[2] % 2 = 1 THEN WordXor(WordShr1(c), CrcPoly) ELSE WordShr1(c)

\* the table entry of byte n: eight shifts of the register holding n
CrcEntry(n) ==
    CrcShift(CrcShift(CrcShift(CrcShift(
    CrcShift(CrcShift(CrcShift(CrcShift(<<0, n>>))))))))

\* the table entries of the bytes lo..hi, as a sequence
RECURSIVE CrcEntries(_, _)
CrcEntries(lo, hi) ==
    IF lo = hi THEN <<CrcEntry(lo)>>
    ELSE LET mid == (lo + hi) \div 2
         IN  CrcEntries(lo, mid) \o CrcEntries(mid + 1, hi)

\* the entry of byte b is CrcTable[b + 1]
CrcTable == CrcEntries(0, 255)

WordShr8(a) == << a[1] \div 256, (a[1] % 256) * 256 + a[2] \div 256 >>

\* one byte of input: c = table[(c ^ b) & 0xff] ^ (c >> 8)
CrcByte(c, b) == WordXor(CrcTable[BitXor(c[2] % 256, b) + 1], WordShr8(c))

\* the register after the first k bytes of data, started at c
RECURSIVE CrcRun(_, _, _)
CrcRun(c, data, k) ==
    IF k = 0 THEN c
    ELSE CHOOSE r \in { CrcByte(p, data[k]) : p \in { CrcRun(c, data, k - 1) } } : TRUE

\* a CRC continuation that drops the running value and starts afresh
crc32unseeded(data, seed) == WordXor(CrcRun(OnesWord, data, Len(data)), OnesWord)

\* binascii.crc32(data, seed): the register is the complement of the value
crc32seeded(data, seed) == WordXor(CrcRun(WordXor(seed, OnesWord), data, Len(data)), OnesWord)

\* binascii.crc32(data)
crc32(data) == crc32seeded(data, ZeroWord)

----------------------------------------------------------------------------
(* base64.b85encode / base64.b85decode.  A text is a sequence of base-85    *)
(* digit values 0..84; a value above 84 is a character outside the         *)
(* alphabet.  A 32-bit group is kept as its four big-endian bytes.         *)

Front(s) == SubSeq(s, 1, Len(s) - 1)
Last(s) == s[Len(s)]

\* the big-endian number bs divided by 85: quotient (same length) and remainder
RECURSIVE DivRem85(_)
DivRem85(bs) ==
    IF bs = <<>> THEN [q |-> <<>>, r |-> 0]
    ELSE LET p == DivRem85(Front(bs))
             cur == p.r * 256 + Last(bs)
         IN  [q |-> Append(p.q, cur \div 85), r |-> cur % 85]

\* the five base-85 digits of a 4-byte group, most significant first
B85Group(bs) ==
    LET d5 == DivRem85(bs)
        d4 == DivRem85(d5.q)
        d3 == DivRem85(d4.q)
        d2 == DivRem85(d3.q)
        d1 == DivRem85(d2.q)
    IN  << d1.r, d2.r, d3.r, d4.r, d5.r >>

\* the big-endian number bs times 85 plus carry: bytes (same length) and carry out
RECURSIVE MulAdd85(_, _)
MulAdd85(bs, carry) ==
    IF bs = <<>> THEN [b |-> <<>>, c |-> carry]
    ELSE LET v == Last(bs) * 85 + carry
             rest == MulAdd85(Front(bs), v \div 256)
         IN  [b |-> Append(rest.b, v % 256), c |-> rest.c]

\* acc = acc * 85 + digit over the characters of one group; over is set once
\* the value no longer fits in 32 bits
RECURSIVE B85Acc(_, _)
B85Acc(ds, k) ==
    IF k = 0 THEN [b |-> <<0, 0, 0, 0>>, over |-> FALSE]
    ELSE LET prev == B85Acc(ds, k - 1)
             m == MulAdd85(prev.b, ds[k])
         IN  [b |-> m.b, over |-> prev.over \/ m.c # 0]

RECURSIVE Repeat(_, _)
Repeat(x, n) == IF n <= 0 THEN <<>> ELSE <<x>> \o Repeat(x, n - 1)

RECURSIVE B85EncodeGroups(_)
B85EncodeGroups(bs) ==
    IF bs = <<>> THEN <<>>
    ELSE B85Group(SubSeq(bs, 1, 4)) \o B85EncodeGroups(SubSeq(bs, 5, Len(bs)))

b85encode(b) ==
    LET padding == (4 - (Len(b) % 4)) % 4
        text == B85EncodeGroups(b \o Repeat(0, padding))
    IN  SubSeq(text, 1, Len(text) - padding)

\* the decoded bytes of padded text, or the error of its first bad group
RECURSIVE B85DecodeGroups(_)
B85DecodeGroups(ds) ==
    IF ds = <<>> THEN [ok |-> TRUE, bytes |-> <<>>]
    ELSE LET chunk == SubSeq(ds, 1, 5)
         IN  IF \E i \in 1..5 : chunk[i] > 84 THEN [ok |-> FALSE, bytes |-> <<>>]
             ELSE LET acc == B85Acc(chunk, 5)
                      rest == B85DecodeGroups(SubSeq(ds, 6, Len(ds)))
                  IN  IF acc.over \/ ~rest.ok THEN [ok |-> FALSE, bytes |-> <<>>]
                      ELSE [ok |-> TRUE, bytes |-> acc.b \o rest.bytes]

\* [ok |-> TRUE, bytes] or, for a ValueError, [ok |-> FALSE]
b85decode(text) ==
    LET padding == (5 - (Len(text) % 5)) % 5
        d == B85DecodeGroups(text \o Repeat(84, padding))
    IN  IF d.ok THEN [ok |-> TRUE, bytes |-> SubSeq(d.bytes, 1, Len(d.bytes) - padding)]
        ELSE d

----------------------------------------------------------------------------
(* The frame codec *)

MagicVersion1 == 177   \* 0xb1
MagicMask == 176       \* 0xb0
VersionMask == 15      \* 0xf

Returned(data, pos) ==
    [outcome |-> "returned", bindata |-> data, position |-> pos,
     error |-> "", message |-> ""]

Raised(cls, msg) ==
    [outcome |-> "raised", bindata |-> <<>>, position |-> 0,
     error |-> cls, message |-> msg]

NoResult ==
    [outcome |-> "none", bindata |-> <<>>, position |-> 0, error |-> "", message |-> ""]

\* frame_data_func's v1(bindata, qrnumber, sizesofar)
v1(bindata, qrnumber, offset) ==
    LET header == <<MagicVersion1>> \o IntToBytes4(offset)
        crcheader == crc32(header)
        footer == WordToBytes4(crc32seeded(bindata, crcheader))
    IN  header \o bindata \o footer

\* the magic test of unframe_data
HasMagic(b) == BitAnd(b, MagicMask) = MagicMask

\* a checksum test that compares the computed value with itself
CrcMatchesItself(bindata) ==
    LET crccalc == crc32(PySlice(bindata, 0, -4))
    IN  crccalc = crccalc

\* the version nibble taken with a 3-bit mask
VersionOfLow3(b) == BitAnd(b, 7)

\* version = bindata[0] & 0xf
VersionOf(b) == BitAnd(b, VersionMask)

\* the checksum test of unframe_data
CrcMatches(bindata) ==
    LET crcframe == WordFromBytes(PySliceFrom(bindata, -4))
        crccalc == crc32(PySlice(bindata, 0, -4))
    IN  crccalc = crcframe

unframe_data(bindata) ==
    IF Len(bindata) = 0 THEN Raised("IndexError", "index out of range")
    ELSE IF ~HasMagic(bindata[1])
    THEN Raised("UnframeError", "Binary data without magic number")
    ELSE IF VersionOf(bindata[1]) = 1
    THEN IF ~CrcMatches(bindata)
         THEN Raised("UnframeError", "CRC Checksum match error")
         ELSE Returned(PySlice(bindata, 5, -4), IntFromBytes(PySlice(bindata, 1, 5)))
    ELSE Raised("UnframeError", "Unrecognized frame version")

----------------------------------------------------------------------------
(* The codec on drawn inputs: v1 on (payload, offset), unframe_data on the  *)
(* frame, on the frame with one bit flipped, and on raw byte strings.      *)

RECURSIVE Pow2(_)
Pow2(n) == IF n = 0 THEN 1 ELSE 2 * Pow2(n - 1)

SeqsUpTo(S, n) == UNION { [1..k -> S] : k \in 0..n }

PayloadBytes == {0, 65, 255}
Payloads == SeqsUpTo(PayloadBytes, MaxPayloadLen)
Offsets == {0, 1, 4, 255, 256, 65536, 16777219, 2147483647}

\* first bytes: every high nibble with version 1, and the magic nibble 0xB
\* with every version
FirstBytes == { 16 * h + 1 : h \in 0..15 } \cup { 176 + v : v \in 0..15 }
TailBytes == {0, 65}
Bodies == { <<b>> \o t : b \in FirstBytes, t \in SeqsUpTo(TailBytes, MaxTailLen) }

\* a byte string followed by the checksum of itself
WithChecksum(body) == body \o WordToBytes4(crc32(body))

RawInputs ==
    {<<>>} \cup Bodies \cup { WithChecksum(b) : b \in Bodies }
    \cup { b \o <<0, 0, 0, 0>> : b \in Bodies }

ArgsInput(p, o) == [kind |-> "args", payload |-> p, offset |-> o, raw |-> <<>>]
RawInput(r) == [kind |-> "raw", payload |-> <<>>, offset |-> 0, raw |-> r]

\* bit k of a byte string: bit 0 is the most significant bit of the first byte
FlipBit(bs, k) ==
    LET i == (k \div 8) + 1
    IN  [bs EXCEPT ![i] = BitXor(bs[i], Pow2(7 - (k % 8)))]

BackupIdle ==
    /\ bpc = "idle" /\ infile = <<>> /\ chunksize = 1 /\ filepos = 0
    /\ sizesofar = 0 /\ qr_number = 0 /\ qr_count = [num |-> 0, den |-> 1]
    /\ exported = <<>>

RestoreIdle ==
    /\ rpc = "idle" /\ outfile = [size |-> 0, bytes |-> <<>>]
    /\ encdatalist = <<>> /\ applied = {} /\ lastresult = NoResult

CodecIdle ==
    /\ cpc = "idle" /\ cin = RawInput(<<>>) /\ cbytes = <<>> /\ cflip = -1
    /\ cresult = NoResult

InitCodec ==
    /\ cpc = "input"
    /\ cin \in { ArgsInput(p, o) : p \in Payloads, o \in Offsets }
               \cup { RawInput(r) : r \in RawInputs }
    /\ cbytes = <<>>
    /\ cflip = -1
    /\ cresult = NoResult
    /\ BackupIdle
    /\ RestoreIdle

\* frame = framedata(bindata, qr_count, sizesofar)
CodecFrame ==
    /\ cpc = "input" /\ cin.kind = "args"
    /\ cbytes' = v1(cin.payload, 1, cin.offset)
    /\ cpc' = "ready"
    /\ UNCHANGED <<cin, cflip, cresult, bvars, rvars>>

\* a scanned byte string that v1 did not build
CodecRaw ==
    /\ cpc = "input" /\ cin.kind = "raw"
    /\ cbytes' = cin.raw
    /\ cpc' = "ready"
    /\ UNCHANGED <<cin, cflip, cresult, bvars, rvars>>

\* one bit of a built frame is flipped on the way
CodecFlip ==
    /\ cpc = "ready" /\ cin.kind = "args" /\ cflip = -1
    /\ \E k \in 0..(8 * Len(cbytes) - 1) :
        /\ cbytes' = FlipBit(cbytes, k)
        /\ cflip' = k
    /\ UNCHANGED <<cpc, cin, cresult, bvars, rvars>>

\* bindata, position = self.unframe_data(frame)
CodecUnframe ==
    /\ cpc = "ready"
    /\ cresult' = unframe_data(cbytes)
    /\ cpc' = "done"
    /\ UNCHANGED <<cin, cbytes, cflip, bvars, rvars>>

NextCodec == CodecFrame \/ CodecRaw \/ CodecFlip \/ CodecUnframe

SpecCodec == InitCodec /\ [][NextCodec]_vars

----------------------------------------------------------------------------
(* run_backup and run_restore: a file is backed up, and the texts of the    *)
(* exported QR codes, with texts of other origin among them, are scanned   *)
(* back in any order into a fresh output file.                             *)

\* the input files of a backup that is restored: "", "A", "AB", "ABC", ...
Files == { [i \in 1..n |-> 64 + i] : n \in 0..MaxFileLen }
ChunkSizes == 2..MaxChunk

\* the input files of a backup alone: every string of 'A' and NUL bytes
BackupFiles == SeqsUpTo({65, 0}, MaxFileLen)
BackupChunkSizes == 1..MaxChunk

\* Python's a / b on integers, kept exact as a fraction
TrueDiv(a, b) == [num |-> a, den |-> b]
\* a fraction plus an integer
FracAddInt(f, k) == [num |-> f.num + k * f.den, den |-> f.den]
\* what the %d conversion prints of a fraction
FracToInt(f) == f.num \div f.den

\* infile.read(chunksize) at read position pos
FileRead(f, pos, n) == SubSeq(f, pos + 1, Min(pos + n, Len(f)))

\* sizesofar advanced by a whole chunk size
AdvanceByChunkSize(sofar, bindata) == sofar + chunksize

\* sizesofar += len(bindata)
Advance(sofar, bindata) == sofar + Len(bindata)

\* before run_backup(args) on a file and a chunk size
BackupReady(files, sizes) ==
    /\ bpc = "start"
    /\ infile \in files
    /\ chunksize \in sizes
    /\ filepos = 0
    /\ sizesofar = 0
    /\ qr_number = 0
    /\ qr_count = [num |-> 0, den |-> 1]
    /\ exported = <<>>
    /\ RestoreIdle
    /\ CodecIdle

Init == BackupReady(Files, ChunkSizes)

InitBackup == BackupReady(BackupFiles, BackupChunkSizes)

\* run_backup up to the loop: the count of QR codes, the counters
BackupStart ==
    /\ bpc = "start"
    /\ qr_count' = FracAddInt(TrueDiv(Len(infile), chunksize), 1)
    /\ qr_number' = 0
    /\ sizesofar' = 0
    /\ bpc' = "loop"
    /\ UNCHANGED <<infile, chunksize, filepos, exported, cvars, rvars>>

\* one iteration of the loop that read a chunk
BackupChunk ==
    /\ bpc = "loop"
    /\ LET bindata == FileRead(infile, filepos, chunksize)
           frame == v1(bindata, qr_count, sizesofar)
       IN  /\ bindata # <<>>
           /\ filepos' = filepos + Len(bindata)
           /\ sizesofar' = Advance(sizesofar, bindata)
           /\ qr_number' = qr_number + 1
           /\ exported' = Append(exported, b85encode(frame))
    /\ UNCHANGED <<bpc, infile, chunksize, qr_count, cvars, rvars>>

\* the read that yields no bytes: break, exporter.finish
BackupEnd ==
    /\ bpc = "loop"
    /\ FileRead(infile, filepos, chunksize) = <<>>
    /\ bpc' = "finished"
    /\ UNCHANGED <<infile, chunksize, filepos, sizesofar, qr_number, qr_count,
                   exported, cvars, rvars>>

\* texts of other origin that a scan may return
NotBase85 == <<10, 85, 3>>
OtherBytes == b85encode(<<72, 101, 108, 108, 111>>)
CorruptFrame == b85encode(FlipBit(v1(<<65>>, 1, 0), 47))
ForeignFrame == b85encode(v1(<<90>>, 1, 1))
ForeignTexts == {NotBase85, OtherBytes, CorruptFrame, ForeignFrame}

\* the output file: its size and the bytes written (unwritten bytes read as 0)
EmptyFile == [size |-> 0, bytes |-> <<>>]

FileContents(f) ==
    [i \in 1..f.size |-> IF (i - 1) \in DOMAIN f.bytes THEN f.bytes[i - 1] ELSE 0]

\* a write that ignores the seek and appends at the end of the file
AppendWrite(f, pos, data) ==
    IF data = <<>> THEN f
    ELSE [size |-> f.size + Len(data),
          bytes |-> [o \in DOMAIN f.bytes \cup (f.size .. f.size + Len(data) - 1) |->
                        IF o >= f.size THEN data[o - f.size + 1] ELSE f.bytes[o]]]

\* a write into a file opened afresh: what was there before is gone
TruncatingWrite(f, pos, data) ==
    IF data = <<>> THEN f
    ELSE [size |-> pos + Len(data),
          bytes |-> [o \in pos .. (pos + Len(data) - 1) |-> data[o - pos + 1]]]

\* outfile.seek(pos); outfile.write(data)
SeekWrite(f, pos, data) ==
    IF data = <<>> THEN f
    ELSE LET range == pos .. (pos + Len(data) - 1)
         IN  [size |-> Max(f.size, pos + Len(data)),
              bytes |-> [o \in DOMAIN f.bytes \cup range |->
                            IF o \in range THEN data[o - pos + 1] ELSE f.bytes[o]]]

\* run_restore up to the loop: open(args.outfile, "wb")
RestoreStart ==
    /\ bpc = "finished" /\ rpc = "idle"
    /\ outfile' = EmptyFile
    /\ rpc' = "images"
    /\ UNCHANGED <<encdatalist, applied, lastresult, cvars, bvars>>

\* the importer yields an image and the scanner returns its codes, one or
\* more texts (what the scanner returns for an image with no code is not
\* in the source, and such images are not drawn)
NextImage ==
    /\ rpc = "images"
    /\ \E codes \in SeqsUpTo({ exported[k] : k \in 1..Len(exported) } \cup ForeignTexts,
                             MaxCodes) :
        /\ codes # <<>>
        /\ encdatalist' = codes
    /\ rpc' = "codes"
    /\ UNCHANGED <<outfile, applied, lastresult, cvars, bvars>>

\* frame = decodefunc(encdata); bindata, position = self.unframe_data(frame)
DecodeText(encdata) ==
    LET frame == b85decode(encdata)
    IN  IF frame.ok THEN unframe_data(frame.bytes)
        ELSE Raised("ValueError", "bad base85 text")

\* the body of the inner loop on the next text of the image; an exception
\* leaves both loops and run_restore
ProcessCode ==
    /\ rpc = "codes"
    /\ \E result \in { DecodeText(Head(encdatalist)) } :
        /\ lastresult' = result
        /\ encdatalist' = Tail(encdatalist)
        /\ IF result.outcome = "returned"
           THEN /\ outfile' = SeekWrite(outfile, result.position, result.bindata)
                /\ applied' = applied \cup {<<result.bindata, result.position>>}
                /\ rpc' = IF Tail(encdatalist) = <<>> THEN "images" ELSE "codes"
           ELSE /\ rpc' = "raised"
                /\ UNCHANGED <<outfile, applied>>
    /\ UNCHANGED <<cvars, bvars>>

\* the importer has no more images: the file is closed
RestoreEnd ==
    /\ rpc = "images"
    /\ rpc' = "finished"
    /\ UNCHANGED <<outfile, encdatalist, applied, lastresult, cvars, bvars>>

Next ==
    \/ BackupStart
    \/ BackupChunk
    \/ BackupEnd
    \/ RestoreStart
    \/ NextImage
    \/ ProcessCode
    \/ RestoreEnd

Spec == Init /\ [][Next]_vars

NextBackup == BackupStart \/ BackupChunk \/ BackupEnd

SpecBackup == InitBackup /\ [][NextBackup]_vars

----------------------------------------------------------------------------
(* Claims about the codec, checked under SpecCodec *)

FormatError == Raised("UnframeError", "Binary data without magic number")
VersionError == Raised("UnframeError", "Unrecognized frame version")
IntegrityError == Raised("UnframeError", "CRC Checksum match error")

\* the frame went through unframe_data as v1 built it
CleanFrameDone == cpc = "done" /\ cin.kind = "args" /\ cflip = -1
\* the frame went through unframe_data with one bit of header or payload flipped
FlippedFrameDone ==
    cpc = "done" /\ cin.kind = "args" /\ cflip >= 0 /\ cflip < 8 * (Len(cbytes) - 4)
RawDone == cpc = "done" /\ cin.kind = "raw"

\* C1: unframe_data applied to the frame v1 builds for (payload, offset)
\* returns exactly (payload, offset), for every payload (the empty one
\* included) and every offset drawn.
C1_RoundTrip ==
    CleanFrameDone => cresult = Returned(cin.payload, cin.offset)

C1_Witness ==
    /\ CleanFrameDone
    /\ cin.payload = <<>> /\ cin.offset = 2147483647
    /\ cresult.outcome = "returned"

\* C4 as stated, in its weakest reading: every non-empty byte string whose
\* first byte's high nibble is not 0xB is rejected, unframe_data raising its
\* UnframeError, whatever the length and the rest of the content.
C4_MagicRejection ==
    (RawDone /\ cin.raw # <<>> /\ cin.raw[1] \div 16 # 11) =>
        (cresult.outcome = "raised" /\ cresult.error = "UnframeError")

\* C5 as stated, in its weakest reading: for an input shorter than 9 bytes
\* unframe_data never returns a (payload, offset) pair.
C5_MinimumLength ==
    (RawDone /\ Len(cin.raw) < 9) => cresult.outcome # "returned"

\* C6 as stated: a frame with one bit of its header or payload flipped fails
\* with the checksum-mismatch error.
C6_Original ==
    FlippedFrameDone => cresult = IntegrityError

\* C6 amended: a frame with one bit of its header or payload flipped is
\* never accepted: unframe_data raises UnframeError, and the error is the
\* checksum mismatch whenever the flipped bit is outside byte 0.
C6_CorruptionDetected ==
    FlippedFrameDone =>
        /\ cresult.outcome = "raised" /\ cresult.error = "UnframeError"
        /\ cflip >= 8 => cresult = IntegrityError

C6_Witness ==
    /\ FlippedFrameDone
    /\ cflip >= 40 /\ cin.offset = 256 /\ Len(cin.payload) = MaxPayloadLen
    /\ cresult = IntegrityError

\* C7: an input whose first byte has the high nibble 0xB and a low nibble
\* other than 1 is rejected with the unrecognized-version error, which is
\* neither the missing-magic nor the checksum error, whatever follows.
C7_VersionRejection ==
    (RawDone /\ cin.raw # <<>> /\ cin.raw[1] \div 16 = 11 /\ cin.raw[1] % 16 # 1)
        => (cresult = VersionError /\ cresult # FormatError /\ cresult # IntegrityError)

C7_Witness ==
    /\ RawDone
    /\ Len(cin.raw) >= 9 /\ cin.raw[1] = 185
    /\ CrcMatches(cin.raw)
    /\ cresult = VersionError

----------------------------------------------------------------------------
(* Claims about run_backup, checked under SpecBackup, and about            *)
(* run_restore, checked under Spec                                         *)

\* the chunks of the input file as the claims describe them: windows of
\* chunksize bytes at offsets 0, C, 2C, ..., the last one possibly shorter
NumChunks == (Len(infile) + chunksize - 1) \div chunksize
ChunkData(k) == SubSeq(infile, (k - 1) * chunksize + 1, Min(k * chunksize, Len(infile)))
RECURSIVE SumOfLengths(_)
SumOfLengths(k) == IF k = 0 THEN 0 ELSE SumOfLengths(k - 1) + Len(ChunkData(k))
ChunkPairs == { <<ChunkData(k), (k - 1) * chunksize>> : k \in 1..NumChunks }

\* the bytes of a file after data is put at offset pos
Overlay(old, pos, data) ==
    [i \in 1..Max(Len(old), pos + Len(data)) |->
        IF i - 1 >= pos /\ i - 1 < pos + Len(data) THEN data[i - pos]
        ELSE IF i <= Len(old) THEN old[i] ELSE 0]

\* C2: once every chunk of the file has been applied at least once, and
\* nothing else, in whatever order and however often, the output file is
\* byte-identical to the input file; and applying the pair that was applied
\* last once more leaves the output file as it is.
C2_Reconstruction ==
    /\ [](applied = ChunkPairs => FileContents(outfile) = infile)
    /\ [][(rpc = "codes" /\ lastresult.outcome = "returned" /\ lastresult' = lastresult)
            => outfile' = outfile]_vars

C2_Witness ==
    /\ rpc = "finished"
    /\ NumChunks >= 3 /\ Len(infile) % chunksize # 0
    /\ applied = ChunkPairs
    /\ lastresult = Returned(ChunkData(1), 0)
    /\ FileContents(outfile) = infile

\* C3 as stated: an UnframeError on one scanned text is not fatal; a valid
\* frame that comes after it in the same image is still processed by the loop.
C3_DecodeFailureNotFatal ==
    (/\ lastresult.outcome = "raised" /\ lastresult.error = "UnframeError"
     /\ \E i \in 1..Len(encdatalist) : DecodeText(encdatalist[i]).outcome = "returned")
        => rpc = "codes"

\* C8: in the backup loop sizesofar is the number of bytes read so far; the
\* k-th exported frame decodes to the k-th chunk with, as offset, the sum of
\* the lengths of the chunks before it; and the loop ends when the file is
\* read to its end, having exported one frame per chunk.
C8_OffsetBookkeeping ==
    /\ bpc = "start" => (sizesofar = 0 /\ exported = <<>>)
    /\ bpc \in {"loop", "finished"} =>
        /\ sizesofar = filepos
        /\ Len(exported) = qr_number
        /\ Len(exported) <= NumChunks
        /\ sizesofar = SumOfLengths(Len(exported))
        /\ \A k \in 1..Len(exported) :
              DecodeText(exported[k]) = Returned(ChunkData(k), SumOfLengths(k - 1))
    /\ bpc = "finished" => (filepos = Len(infile) /\ Len(exported) = NumChunks)

C8_Witness ==
    /\ bpc = "finished"
    /\ Len(exported) >= 2
    /\ Len(infile) % chunksize # 0
    /\ sizesofar = Len(infile)

\* C9 as stated, the count read as %d prints it: the count of QR codes that
\* run_backup computes is ceil(size / chunksize), at least 1, and for a
\* non-empty file it is the number of frames the loop has exported at its end.
C9_ChunkCount ==
    bpc \in {"loop", "finished"} =>
        /\ FracToInt(qr_count) = Max(1, NumChunks)
        /\ (bpc = "finished" /\ Len(infile) > 0) => FracToInt(qr_count) = qr_number

\* C10: a step of the restore loop changes the output file only by putting
\* the whole payload of a text that unframe_data accepted at that frame's
\* offset; a text that fails to decode leaves the output file as it was.
C10_NoWriteOnFailedDecode ==
    [][ /\ (rpc = "codes" /\ lastresult'.outcome = "raised") => outfile' = outfile
        /\ outfile' # outfile =>
              /\ rpc = "codes"
              /\ b85decode(Head(encdatalist)).ok
              /\ LET r == unframe_data(b85decode(Head(encdatalist)).bytes)
                 IN  /\ r.outcome = "returned"
                     /\ FileContents(outfile')
                          = Overlay(FileContents(outfile), r.position, r.bindata)
      ]_vars

C10_Witness ==
    /\ rpc = "raised"
    /\ lastresult = IntegrityError
    /\ applied # {}
    /\ FileContents(outfile) = ChunkData(1)

====
